---- MODULE Spec2Model ----
(***************************************************************************)
(* A model of the modular TikTok downloader pipeline:                      *)
(*   index.js (processUrls), processors/videoProcessor.js,                 *)
(*   processors/photoProcessor.js, services/apiService.js,                 *)
(*   services/downloadService.js, services/htmlService.js,                 *)
(*   extractors/dataExtractor.js, utils/urlUtils.js, utils/dateUtils.js,   *)
(*   utils/networkUtils.js, utils/fileUtils.js, config/constants.js.       *)
(*                                                                         *)
(* The program is one chain of async functions.  Every `await` of a        *)
(* network call (or of the pacing timer) is a suspension point; an action  *)
(* of the model is the arrival of the awaited response together with all   *)
(* the synchronous code that runs until the next await.  The remote        *)
(* servers and the filesystem are the environment: each response and each  *)
(* write outcome is drawn from a small set with \E.                        *)
(***************************************************************************)
EXTENDS Integers, Sequences, FiniteSets, TLC

(***************************************************************************)
(* Bounds of the model                                                     *)
(***************************************************************************)
\* longest batch handed to processUrls
MaxBatch == 2
\* longest images list of a fallback API result
MaxImages == 3

(***************************************************************************)
(* JavaScript values.  An optional value (a property that may be           *)
(* undefined/null) is a sequence of length 0 or 1.                         *)
(***************************************************************************)
None == <<>>
Some(x) == <<x>>
IsSome(o) == Len(o) > 0
Get(o) == o[1]

\* JS truthiness of an optional string: undefined and "" are falsy
TruthyStr(o) == IsSome(o) /\ Get(o) # ""

(***************************************************************************)
(* config/constants.js                                                     *)
(***************************************************************************)
VIDEO_DIR == "./tiktok-videos"
IMAGE_DIR == "./tiktok-images"
\* the pacing delay of processUrls, in ms
DelayMs == 2000

(***************************************************************************)
(* URLs.  A string is modelled as the sequence of its tokens, cut so that  *)
(* every literal of TIKTOK_URL_REGEX and the marker "/photo/" is a token.  *)
(* An input of the batch is a string or some other JS value.               *)
(***************************************************************************)
Str(tokens) == [isString |-> TRUE, s |-> tokens]
NotAString == [isString |-> FALSE, s |-> <<>>]

VideoUrl == Str(<<"https://", "www.", "tiktok.com", "/", "@user1", "/video/", "123">>)
PhotoUrl == Str(<<"https://", "www.", "tiktok.com", "/", "@user3", "/photo/", "345">>)
OtherHostUrl == Str(<<"https://", "www.", "example.com", "/", "@user1", "/video/", "123">>)

Inputs == {VideoUrl, PhotoUrl, OtherHostUrl, NotAString}

\* TIKTOK_URL_REGEX = /^https?:\/\/(www\.|vm\.)?(tiktok\.com)\/?(.*)$/
\* after the host literal, \/?(.*)$ matches any remainder
TIKTOK_URL_REGEX_test(s) ==
    /\ Len(s) >= 2
    /\ s[1] \in {"http://", "https://"}
    /\ \/ s[2] = "tiktok.com"
       \/ /\ s[2] \in {"www.", "vm."}
          /\ Len(s) >= 3
          /\ s[3] = "tiktok.com"

\* mutant: the validator accepts every string
validateURL_AnyString(url) == url.isString /\ url.s # <<>>

validateURL(url) ==
    IF ~url.isString \/ url.s = <<>> THEN FALSE
    ELSE TIKTOK_URL_REGEX_test(url.s)

\* mutant: the video marker is taken for a photo marker as well
IsPhotoUrl_VideoToo(url) ==
    \E k \in 1..Len(url.s) : url.s[k] \in {"/photo/", "/video/"}

\* url.includes("/photo/")
IsPhotoUrl(url) == \E k \in 1..Len(url.s) : url.s[k] = "/photo/"

\* urls.indexOf(url), 0-based; -1 when absent
IndexOf(urls, url) ==
    IF \E k \in 1..Len(urls) : urls[k] = url
    THEN (CHOOSE k \in 1..Len(urls) :
             urls[k] = url /\ \A j \in 1..(k-1) : urls[j] # url) - 1
    ELSE -1

(***************************************************************************)
(* Results of code that may throw: Ok(v) is a normal return of v, Thrown   *)
(* an exception (an Error thrown by the code or a TypeError raised by a    *)
(* property read on undefined/null).                                       *)
(***************************************************************************)
Ok(v) == [threw |-> FALSE, val |-> <<v>>]
Thrown == [threw |-> TRUE, val |-> <<>>]
Val(r) == r.val[1]

(***************************************************************************)
(* extractors/dataExtractor.js                                             *)
(*                                                                         *)
(* The text of the data element is "empty", "malformed" (JSON.parse        *)
(* throws) or "json" with the parsed document.  A parsed document is a     *)
(* record [DEFAULT_SCOPE]; below it come video_detail, itemInfo,           *)
(* itemStruct, each optional.  An item record is                           *)
(*   [author : optional [uniqueId], video : optional Video,                *)
(*    id, createTime : optional]                                           *)
(* and a Video is [bitrateInfo : optional list of optional entries         *)
(* [PlayAddr : optional [UrlList : optional list]], playAddr : optional].  *)
(* The fields authorNickname and description of the descriptor are read    *)
(* by nothing downstream and are left out.                                 *)
(***************************************************************************)
JSON_parse(rawJSON) ==
    IF rawJSON.kind = "json" THEN Ok(rawJSON.doc) ELSE Thrown

\* parsedJSON?.__DEFAULT_SCOPE__?.["webapp.video-detail"]
parseVideoDetail(parsedJSON) ==
    IF IsSome(parsedJSON.DEFAULT_SCOPE)
       /\ IsSome(Get(parsedJSON.DEFAULT_SCOPE).video_detail)
    THEN Ok(Get(Get(parsedJSON.DEFAULT_SCOPE).video_detail))
    ELSE Thrown

\* videoDetail.itemInfo?.itemStruct
getItemStruct(videoDetail) ==
    IF IsSome(videoDetail.itemInfo) /\ IsSome(Get(videoDetail.itemInfo).itemStruct)
    THEN Ok(Get(Get(videoDetail.itemInfo).itemStruct))
    ELSE Thrown

validateAuthorAndVideo(itemStruct) ==
    IF ~IsSome(itemStruct.author) \/ ~IsSome(itemStruct.video)
    THEN Thrown
    ELSE Ok([author |-> Get(itemStruct.author), video |-> Get(itemStruct.video)])

\* playAddr?.UrlList?.[0] of a bitrateInfo entry: the optional first element
FirstOfUrlList(entry) ==
    IF IsSome(entry.PlayAddr) /\ IsSome(Get(entry.PlayAddr).UrlList)
       /\ Len(Get(Get(entry.PlayAddr).UrlList)) > 0
    THEN Some(Get(Get(entry.PlayAddr).UrlList)[1])
    ELSE None

\* mutant: the direct playAddr field is preferred to the bitrate variant
extractVideoUrl_PlayAddrFirst(video) ==
    IF TruthyStr(video.playAddr) THEN Ok(Get(video.playAddr))
    ELSE IF IsSome(video.bitrateInfo) /\ Len(Get(video.bitrateInfo)) > 0
            /\ IsSome(Get(video.bitrateInfo)[1])
            /\ TruthyStr(FirstOfUrlList(Get(Get(video.bitrateInfo)[1])))
    THEN Ok(Get(FirstOfUrlList(Get(Get(video.bitrateInfo)[1]))))
    ELSE Thrown

extractVideoUrl(video) ==
    IF IsSome(video.bitrateInfo) /\ Len(Get(video.bitrateInfo)) > 0
       /\ ~IsSome(Get(video.bitrateInfo)[1])
    THEN \* video.bitrateInfo[0].PlayAddr on a null entry: TypeError
         Thrown
    ELSE IF IsSome(video.bitrateInfo) /\ Len(Get(video.bitrateInfo)) > 0
            /\ TruthyStr(FirstOfUrlList(Get(Get(video.bitrateInfo)[1])))
    THEN Ok(Get(FirstOfUrlList(Get(Get(video.bitrateInfo)[1]))))
    ELSE IF TruthyStr(video.playAddr)
    THEN Ok(Get(video.playAddr))
    ELSE Thrown

\* the descriptor of the primary path; None is the failure value null
extractVideoDataFromJson(rawJSON) ==
    LET parsed == JSON_parse(rawJSON) IN
    IF parsed.threw THEN None ELSE
    LET videoDetail == parseVideoDetail(Val(parsed)) IN
    IF videoDetail.threw THEN None ELSE
    LET itemStruct == getItemStruct(Val(videoDetail)) IN
    IF itemStruct.threw THEN None ELSE
    LET av == validateAuthorAndVideo(Val(itemStruct)) IN
    IF av.threw THEN None ELSE
    LET videoUrl == extractVideoUrl(Val(av).video) IN
    IF videoUrl.threw THEN None ELSE
    Some([authorUniqueId |-> Val(av).author.uniqueId,
          videoId        |-> Val(itemStruct).id,
          createTime     |-> Val(itemStruct).createTime,
          videoUrl       |-> Some(Val(videoUrl))])

\* mutant: JSON.parse sits before the try block, its SyntaxError escapes
extractVideoDataFromJson_ParseOutsideTry(rawJSON) ==
    IF JSON_parse(rawJSON).threw THEN Thrown
    ELSE Ok(extractVideoDataFromJson(rawJSON))

\* a call of extractVideoDataFromJson as its caller sees it: every
\* statement, JSON.parse included, is inside the try block and the catch
\* returns null, so the call returns normally
extractVideoDataFromJson_Outcome(rawJSON) ==
    Ok(extractVideoDataFromJson(rawJSON))

(***************************************************************************)
(* utils/dateUtils.js                                                      *)
(*                                                                         *)
(* new Date(timestamp * 1000) and its getDate / getMonth / getFullYear,    *)
(* computed from the day number of the timestamp (days since 1970-01-01,   *)
(* proleptic Gregorian calendar).  The local calendar of the process is    *)
(* taken to be UTC.  An undefined timestamp gives an Invalid Date, whose   *)
(* three getters return NaN.                                               *)
(***************************************************************************)
CivilFromDays(days) ==
    LET z   == days + 719468
        era == z \div 146097
        doe == z - era * 146097
        yoe == (doe - doe \div 1460 + doe \div 36524 - doe \div 146096) \div 365
        doy == doe - (365 * yoe + yoe \div 4 - yoe \div 100)
        mp  == (5 * doy + 2) \div 153
        d   == doy - (153 * mp + 2) \div 5 + 1
        m   == IF mp < 10 THEN mp + 3 ELSE mp - 9
        y   == yoe + era * 400 + (IF m <= 2 THEN 1 ELSE 0)
    IN  [date |-> d, month |-> m, fullYear |-> y]

\* n.toString().padStart(2, "0")
PadStart2(n) == IF n < 10 THEN "0" \o ToString(n) ELSE ToString(n)

\* mutant: month and day swapped (MMDDYYYY)
formatUploadDate_MonthFirst(timestamp) ==
    IF ~IsSome(timestamp) THEN "NaNNaNNaN"
    ELSE LET c == CivilFromDays(Get(timestamp) \div 86400)
         IN  PadStart2(c.month) \o PadStart2(c.date) \o ToString(c.fullYear)

formatUploadDate(timestamp) ==
    IF ~IsSome(timestamp) THEN "NaNNaNNaN"
    ELSE LET c == CivilFromDays(Get(timestamp) \div 86400)
         IN  PadStart2(c.date) \o PadStart2(c.month) \o ToString(c.fullYear)

\* `${x}` of an optional string in a template literal
Interpolate(o) == IF IsSome(o) THEN Get(o) ELSE "undefined"

(***************************************************************************)
(* services/downloadService.js: the file names                             *)
(***************************************************************************)
VideoFileName(videoData) ==
    Interpolate(videoData.authorUniqueId) \o "_video_"
      \o formatUploadDate(videoData.createTime) \o "_"
      \o Interpolate(videoData.videoId) \o ".mp4"

\* mutant: the loop index is used as it is (files numbered from 0)
ImageFileName_ZeroBased(authorId, timestamp, imageId, i) ==
    Interpolate(authorId) \o "_image_" \o formatUploadDate(timestamp) \o "_"
      \o Interpolate(imageId) \o "_" \o ToString(i) \o ".jpg"

\* i is the 0-based loop index of downloadImages
ImageFileName(authorId, timestamp, imageId, i) ==
    Interpolate(authorId) \o "_image_" \o formatUploadDate(timestamp) \o "_"
      \o Interpolate(imageId) \o "_" \o ToString(i + 1) \o ".jpg"

(***************************************************************************)
(* services/apiService.js                                                  *)
(*                                                                         *)
(* The reply to the API request is None (the transport call rejects) or    *)
(* Some(data) with data = [status, result : optional Result], and          *)
(*   Result = [type, id, createTime : optional,                            *)
(*             author : optional [username : optional],                    *)
(*             video  : optional [playAddr : optional list],               *)
(*             images : optional list].                                    *)
(***************************************************************************)
\* mutant: the status of the body is not looked at
getMediaInfoFromAPI_IgnoreStatus(reply) ==
    IF ~IsSome(reply) THEN Thrown ELSE Ok(Get(reply).result)

\* the value returned (response.data.result, possibly undefined) or a throw
getMediaInfoFromAPI(reply) ==
    IF ~IsSome(reply) THEN Thrown
    ELSE IF Get(reply).status # "success" THEN Thrown
    ELSE Ok(Get(reply).result)

(***************************************************************************)
(* processors/videoProcessor.js, lines 74-89: the check of the API result  *)
(* and the descriptor built from it.  result is the optional value         *)
(* returned by getMediaInfoFromAPI.  Reading a property of an undefined    *)
(* result or author is a TypeError.  A present playAddr is truthy even     *)
(* when it is an empty list, and then playAddr[0] is undefined.            *)
(***************************************************************************)
\* mutant: the descriptor takes the handle for the identifier and back
apiVideoData_SwappedFields(result) ==
    IF ~IsSome(result) THEN Thrown
    ELSE LET r == Get(result) IN
         IF r.type # "video" \/ ~IsSome(r.video) \/ ~IsSome(Get(r.video).playAddr)
         THEN Thrown
         ELSE IF ~IsSome(r.author) THEN Thrown
         ELSE Ok([authorUniqueId |-> r.id,
                  videoId        |-> Get(r.author).username,
                  createTime     |-> r.createTime,
                  videoUrl       |-> IF Len(Get(Get(r.video).playAddr)) > 0
                                     THEN Some(Get(Get(r.video).playAddr)[1])
                                     ELSE None])

\* mutant: the type of the result is not checked
apiVideoData_AnyType(result) ==
    IF ~IsSome(result) THEN Thrown
    ELSE LET r == Get(result) IN
         IF ~IsSome(r.video) \/ ~IsSome(Get(r.video).playAddr) THEN Thrown
         ELSE IF ~IsSome(r.author) THEN Thrown
         ELSE Ok([authorUniqueId |-> Get(r.author).username,
                  videoId        |-> r.id,
                  createTime     |-> r.createTime,
                  videoUrl       |-> IF Len(Get(Get(r.video).playAddr)) > 0
                                     THEN Some(Get(Get(r.video).playAddr)[1])
                                     ELSE None])

apiVideoData(result) ==
    IF ~IsSome(result) THEN Thrown
    ELSE LET r == Get(result) IN
         IF r.type # "video" \/ ~IsSome(r.video) \/ ~IsSome(Get(r.video).playAddr)
         THEN Thrown
         ELSE IF ~IsSome(r.author) THEN Thrown
         ELSE Ok([authorUniqueId |-> Get(r.author).username,
                  videoId        |-> r.id,
                  createTime     |-> r.createTime,
                  videoUrl       |-> IF Len(Get(Get(r.video).playAddr)) > 0
                                     THEN Some(Get(Get(r.video).playAddr)[1])
                                     ELSE None])

(***************************************************************************)
(* processors/photoProcessor.js, lines 43-58: the check of the API result  *)
(* and the arguments handed to downloadImages.                             *)
(***************************************************************************)
\* mutant: an empty images list is let through, and so is any type
apiPhotoData_NoCheck(result) ==
    IF ~IsSome(result) THEN Thrown
    ELSE LET r == Get(result) IN
         IF ~IsSome(r.images) THEN Thrown
         ELSE IF ~IsSome(r.author) THEN Thrown
         ELSE Ok([imageId   |-> r.id,
                  imageUrls |-> Get(r.images),
                  timestamp |-> r.createTime,
                  authorId  |-> Get(r.author).username])

apiPhotoData(result) ==
    IF ~IsSome(result) THEN Thrown
    ELSE LET r == Get(result) IN
         IF r.type # "image" \/ ~IsSome(r.images) \/ Len(Get(r.images)) = 0
         THEN Thrown
         ELSE IF ~IsSome(r.author) THEN Thrown
         ELSE Ok([imageId   |-> r.id,
                  imageUrls |-> Get(r.images),
                  timestamp |-> r.createTime,
                  authorId  |-> Get(r.author).username])

(***************************************************************************)
(* processors/videoProcessor.js, lines 53-67: primary extraction from the  *)
(* fetched page.  A page is [element : BOOLEAN, rawJSON : optional text];  *)
(* element says whether #__UNIVERSAL_DATA_FOR_REHYDRATION__ was found,     *)
(* rawJSON is jsonDataElement[0]?.children?.[0]?.data.                     *)
(***************************************************************************)
\* mutant: the data element is never looked up
directExtraction_Never(html) == None

directExtraction(html) ==
    IF html.element /\ IsSome(html.rawJSON) /\ Get(html.rawJSON).kind # "empty"
    THEN extractVideoDataFromJson(Get(html.rawJSON))
    ELSE None

(***************************************************************************)
(* The environment: the pages the post-page request may return, the        *)
(* replies of the fallback API, and the outcomes of a media request and    *)
(* of a write.                                                             *)
(***************************************************************************)
BitrateUrl == "https://cdn.example/bitrate.mp4"
PlayAddrUrl == "https://cdn.example/play.mp4"
ApiUrl0 == "https://cdn.example/api0.mp4"
ApiUrl1 == "https://cdn.example/api1.mp4"
ImageUrl(k) == "https://cdn.example/img" \o ToString(k) \o ".jpg"

EmptyDoc == [DEFAULT_SCOPE |-> None]
DocOf(itemStruct) ==
    [DEFAULT_SCOPE |->
        Some([video_detail |->
            Some([itemInfo |-> Some([itemStruct |-> itemStruct])])])]
ItemOf(author, video) ==
    [author |-> author, video |-> video,
     id |-> Some("123"), createTime |-> Some(1700000000)]
AuthorAlice == Some([uniqueId |-> Some("alice")])
EntryOf(urlList) == Some([PlayAddr |-> Some([UrlList |-> Some(urlList)])])
VideoOf(bitrateInfo, playAddr) ==
    Some([bitrateInfo |-> bitrateInfo, playAddr |-> playAddr])
TextPage(kind, doc) ==
    [element |-> TRUE, rawJSON |-> Some([kind |-> kind, doc |-> doc])]
ItemPage(author, video) == TextPage("json", DocOf(Some(ItemOf(author, video))))

\* pages from which extractVideoDataFromJson gets a descriptor
GoodPages ==
    { ItemPage(AuthorAlice, VideoOf(Some(<<EntryOf(<<BitrateUrl>>)>>), Some(PlayAddrUrl))),
      ItemPage(AuthorAlice, VideoOf(None, Some(PlayAddrUrl))),
      ItemPage(AuthorAlice, VideoOf(Some(<<EntryOf(<<>>)>>), Some(PlayAddrUrl))),
      TextPage("json", DocOf(Some(
          [author |-> Some([uniqueId |-> None]),
           video |-> VideoOf(Some(<<EntryOf(<<BitrateUrl>>)>>), None),
           id |-> None, createTime |-> None]))) }

\* pages with no data element, no text in it, or an empty text
NoDataPages ==
    { [element |-> FALSE, rawJSON |-> None],
      [element |-> TRUE, rawJSON |-> None],
      TextPage("empty", EmptyDoc) }

\* pages whose text extractVideoDataFromJson rejects
BadJsonPages ==
    { TextPage("malformed", EmptyDoc),
      TextPage("json", EmptyDoc),
      TextPage("json", [DEFAULT_SCOPE |-> Some([video_detail |-> None])]),
      TextPage("json", [DEFAULT_SCOPE |-> Some([video_detail |-> Some([itemInfo |-> None])])]),
      TextPage("json", DocOf(None)),
      ItemPage(None, VideoOf(None, Some(PlayAddrUrl))),
      ItemPage(AuthorAlice, None),
      ItemPage(AuthorAlice, VideoOf(None, None)),
      ItemPage(AuthorAlice, VideoOf(Some(<<>>), Some(""))),
      ItemPage(AuthorAlice, VideoOf(Some(<<None>>), Some(PlayAddrUrl))) }

Pages == GoodPages \cup NoDataPages \cup BadJsonPages

ResultOf(type, author, video, images) ==
    [type |-> type, id |-> Some("345"), createTime |-> Some(1700000000),
     author |-> author, video |-> video, images |-> images]
UserBob == Some([username |-> Some("bob")])
ImageList(n) == [k \in 1..n |-> ImageUrl(k)]
\* a photo post of another author, published on 1 March 2024
CarolPhotoResult ==
    [type |-> "image", id |-> Some("9"), createTime |-> Some(1709251200),
     author |-> Some([username |-> Some("carol")]),
     video |-> None, images |-> Some(ImageList(2))]
\* a video post of the same author, published on the same day
CarolVideoResult ==
    [type |-> "video", id |-> Some("9"), createTime |-> Some(1709251200),
     author |-> Some([username |-> Some("carol")]),
     video |-> Some([playAddr |-> Some(<<ApiUrl0>>)]), images |-> None]
\* the post of the pages (ItemOf, AuthorAlice) as the API describes it
AliceVideoResult ==
    [type |-> "video", id |-> Some("123"), createTime |-> Some(1700000000),
     author |-> Some([username |-> Some("alice")]),
     video |-> Some([playAddr |-> Some(<<ApiUrl0, ApiUrl1>>)]), images |-> None]
GoodVideoResult ==
    ResultOf("video", UserBob, Some([playAddr |-> Some(<<ApiUrl0, ApiUrl1>>)]), None)

ApiResults ==
    { GoodVideoResult,
      ResultOf("video", UserBob, Some([playAddr |-> Some(<<>>)]), None),
      ResultOf("video", UserBob, Some([playAddr |-> None]), None),
      ResultOf("video", UserBob, None, None),
      ResultOf("video", None, Some([playAddr |-> Some(<<ApiUrl0>>)]), None),
      [type |-> "video", id |-> None, createTime |-> None,
       author |-> Some([username |-> None]),
       video |-> Some([playAddr |-> Some(<<ApiUrl0>>)]), images |-> None],
      ResultOf("video", UserBob, Some([playAddr |-> Some(<<ApiUrl0>>)]), Some(ImageList(1))),
      ResultOf("image", UserBob, None, None),
      ResultOf("image", None, None, Some(ImageList(1))),
      ResultOf("image", UserBob, Some([playAddr |-> Some(<<ApiUrl0>>)]), Some(<<>>)) }
    \cup { ResultOf("image", UserBob, None, Some(ImageList(n))) : n \in 1..MaxImages }
    \cup { CarolPhotoResult, CarolVideoResult, AliceVideoResult }

\* None: the transport call rejects (network error, non-2xx, timeout)
ApiReplies ==
    { None,
      Some([status |-> "error", result |-> None]),
      Some([status |-> "error", result |-> Some(GoodVideoResult)]),
      Some([status |-> "error",
            result |-> Some(ResultOf("image", UserBob, None, Some(ImageList(1))))]),
      Some([status |-> "success", result |-> None]) }
    \cup { Some([status |-> "success", result |-> Some(r)]) : r \in ApiResults }

PageReplies == {None} \cup { Some(p) : p \in Pages }

(***************************************************************************)
(* utils/networkUtils.js: the outcomes of a media request.  A request      *)
(* whose URL is undefined is rejected by the HTTP client before anything   *)
(* is sent.                                                                *)
(***************************************************************************)
MediaOutcomes(mediaUrl) ==
    IF IsSome(mediaUrl) THEN {"rejected", "bytes"} ELSE {"rejected"}

(***************************************************************************)
(* utils/fileUtils.js and fs.writeFileSync: ensureDirectoryExists calls    *)
(* mkdirSync only when the directory is absent; mkdirSync and              *)
(* writeFileSync may each throw.                                           *)
(***************************************************************************)
WriteOutcomes(existing, dir) ==
    IF dir \in existing THEN {"written", "write_throws"}
    ELSE {"written", "write_throws", "mkdir_throws"}

(***************************************************************************)
(* State                                                                   *)
(*   urls      the batch handed to processUrls                             *)
(*   idx       the position of the for-of loop (1-based)                   *)
(*   pc        the await the program is suspended at                       *)
(*   videoData, useDirectExtraction   locals of processVideoPost           *)
(*   photoData, i                     arguments and loop index of          *)
(*                                    downloadImages                       *)
(*   files, dirs  the files written and the directories that exist         *)
(*   log       the console messages of the URL at hand                     *)
(*   obs       what was observed for the URL at hand: the route taken,     *)
(*             the requests issued, the replies received, the outcomes of  *)
(*             the writes, the files written, the URL each of them holds   *)
(*             the bytes of, the value downloadVideo returned, and the     *)
(*             step of the URL that failed, if any                         *)
(*   outcomes  one summary per URL of the batch already left behind        *)
(*   arg, ret  the argument and the value of a function of the program     *)
(*             applied on its own (specification SpecFunctions); both are  *)
(*             None while a batch is processed                             *)
(***************************************************************************)
VARIABLES urls, idx, pc, videoData, useDirectExtraction, photoData, i,
          files, dirs, log, obs, outcomes, arg, ret

vars == <<urls, idx, pc, videoData, useDirectExtraction, photoData, i,
          files, dirs, log, obs, outcomes, arg, ret>>

InitObs ==
    [route |-> "none", delayed |-> FALSE,
     pageFetches |-> 0, apiCalls |-> 0, mediaFetches |-> <<>>,
     pageReply |-> None, apiReply |-> None,
     mediaReplies |-> <<>>, writes |-> <<>>,
     written |-> <<>>, data |-> <<>>, returned |-> None,
     failedStep |-> "none"]

Batches == UNION { [1..n -> Inputs] : n \in 0..MaxBatch }

Init ==
    /\ urls \in Batches
    /\ idx = 1
    /\ pc = "loop"
    /\ videoData = None
    /\ useDirectExtraction = FALSE
    /\ photoData = None
    /\ i = 0
    /\ files = {}
    /\ dirs \in {{}, {VIDEO_DIR, IMAGE_DIR}}
    /\ log = <<>>
    /\ obs = InitObs
    /\ outcomes = <<>>
    /\ arg = None
    /\ ret = None

(***************************************************************************)
(* Vocabulary of the properties.  obs describes the URL at hand: the URL   *)
(* at position idx while a processor is suspended, the URL just left       *)
(* behind when the loop is at its head.  The predicates below are stated   *)
(* on the replies of the environment, not on what the program made of      *)
(* them.                                                                   *)
(***************************************************************************)
UrlEnded == pc \in {"loop", "done"} /\ idx > 1
ObsPos == IF pc \in {"loop", "done"} THEN idx - 1 ELSE idx

\* a string that matches TIKTOK_URL_REGEX
MatchesPattern(url) == url.isString /\ TIKTOK_URL_REGEX_test(url.s)
HasPhotoMarker(url) == \E k \in 1..Len(url.s) : url.s[k] = "/photo/"

PageReceived(ob) == IsSome(ob.pageReply) /\ IsSome(Get(ob.pageReply))
PageOf(ob) == Get(Get(ob.pageReply))

ApiReplied(ob) == IsSome(ob.apiReply)
\* the API call failed at transport level or the body's status is not "success"
ApiFailed(ob) ==
    /\ ApiReplied(ob)
    /\ \/ ~IsSome(Get(ob.apiReply))
       \/ Get(Get(ob.apiReply)).status # "success"
ApiHasResult(ob) ==
    ApiReplied(ob) /\ ~ApiFailed(ob) /\ IsSome(Get(Get(ob.apiReply)).result)
ApiResultOf(ob) == Get(Get(Get(ob.apiReply)).result)

\* a result the video flow can download from
UsableVideoResult(r) ==
    /\ r.type = "video"
    /\ IsSome(r.video)
    /\ IsSome(Get(r.video).playAddr)
    /\ Len(Get(Get(r.video).playAddr)) > 0
    /\ IsSome(r.author)
\* a result with type "image" and a non-empty images list
ImageResult(r) == r.type = "image" /\ IsSome(r.images) /\ Len(Get(r.images)) > 0

AnyRejected(ob) == \E k \in 1..Len(ob.mediaReplies) : ob.mediaReplies[k] = "rejected"
AnyWriteFailed(ob) == \E k \in 1..Len(ob.writes) : ob.writes[k] # "written"

\* every step of the URL's own processing succeeded: the URL matches the
\* pattern, its page or its API reply carries what the flow needs, and every
\* media request and every write of the post succeeded
StepsAllSucceed(url, ob) ==
    /\ MatchesPattern(url)
    /\ IF HasPhotoMarker(url)
       THEN /\ ApiHasResult(ob)
            /\ ImageResult(ApiResultOf(ob))
            /\ IsSome(ApiResultOf(ob).author)
            /\ Len(ob.mediaReplies) = Len(Get(ApiResultOf(ob).images))
            /\ Len(ob.writes) = Len(Get(ApiResultOf(ob).images))
            /\ ~AnyRejected(ob)
            /\ ~AnyWriteFailed(ob)
       ELSE /\ PageReceived(ob)
            /\ \/ PageOf(ob) \in GoodPages
               \/ ApiHasResult(ob) /\ UsableVideoResult(ApiResultOf(ob))
            /\ ob.mediaReplies = <<"bytes">>
            /\ ob.writes = <<"written">>

Has(lg, msg) == \E k \in 1..Len(lg) : lg[k] = msg

\* what the console says about a URL
Reported(lg) ==
    IF Has(lg, "Method used") \/ Has(lg, "All images successfully downloaded")
    THEN "success"
    ELSE IF Has(lg, "Invalid TikTok URL") THEN "invalid"
    ELSE "failed"

\* the number of media files of the post of a URL, 0 when it was never learnt
MediaCount(ob) ==
    IF ob.route = "video" THEN 1
    ELSE IF ob.route = "photo" /\ IsSome(ob.apiReply) /\ IsSome(Get(ob.apiReply))
            /\ IsSome(Get(Get(ob.apiReply)).result)
            /\ IsSome(Get(Get(Get(ob.apiReply)).result).images)
    THEN Len(Get(Get(Get(Get(ob.apiReply)).result).images))
    ELSE 0

Summary(lg, ob) ==
    [url        |-> urls[idx],
     report     |-> Reported(lg),
     downloaded |-> MediaCount(ob) > 0 /\ Len(ob.written) = MediaCount(ob),
     stepsOk    |-> StepsAllSucceed(urls[idx], ob)]

(***************************************************************************)
(* The requests.  Each is issued by one call in the code.                  *)
(***************************************************************************)
\* htmlService.handleHtml: instance(url, ...)
RequestPage(ob) == [ob EXCEPT !.pageFetches = @ + 1]

\* mutant: the API call is retried once
RequestApi_Twice(ob) == [ob EXCEPT !.apiCalls = @ + 2]

\* apiService.getMediaInfoFromAPI: instance(apiUrl, ...)
RequestApi(ob) == [ob EXCEPT !.apiCalls = @ + 1]

\* networkUtils.downloadFile / downloadImages: instance(mediaUrl, ...)
RequestMedia(ob, mediaUrl) == [ob EXCEPT !.mediaFetches = Append(@, mediaUrl)]

(***************************************************************************)
(* index.js, processUrls: the end of one iteration of the for-of loop.     *)
(* Both processors catch every error themselves, so the await in the try   *)
(* block always resolves and the loop goes on to the next URL.             *)
(***************************************************************************)
\* mutant: a failed URL propagates to the top level and ends the batch
EndUrl_AbortOnFailure(lg, ob) ==
    /\ log' = lg
    /\ obs' = ob
    /\ outcomes' = Append(outcomes, Summary(lg, ob))
    /\ idx' = idx + 1
    /\ pc' = IF ob.failedStep = "none" THEN "loop" ELSE "done"
    /\ videoData' = None
    /\ useDirectExtraction' = FALSE
    /\ photoData' = None
    /\ i' = 0
    /\ UNCHANGED <<urls, arg, ret>>

\* mutant: after a failure the processor awaits a promise nothing settles
EndUrl_HangOnFailure(lg, ob) ==
    /\ log' = lg
    /\ obs' = ob
    /\ pc' = IF ob.failedStep = "none" THEN "loop" ELSE "hung"
    /\ IF ob.failedStep = "none"
       THEN /\ outcomes' = Append(outcomes, Summary(lg, ob))
            /\ idx' = idx + 1
       ELSE /\ outcomes' = outcomes
            /\ idx' = idx
    /\ videoData' = None
    /\ useDirectExtraction' = FALSE
    /\ photoData' = None
    /\ i' = 0
    /\ UNCHANGED <<urls, arg, ret>>

\* mutant: the processor rethrows, the error reaches the top-level catch
\* and the process exits with code 1
EndUrl_Rethrow(lg, ob) ==
    /\ log' = lg
    /\ obs' = ob
    /\ outcomes' = Append(outcomes, Summary(lg, ob))
    /\ idx' = idx + 1
    /\ pc' = IF ob.failedStep \in {"none", "validation"} THEN "loop" ELSE "exit1"
    /\ videoData' = None
    /\ useDirectExtraction' = FALSE
    /\ photoData' = None
    /\ i' = 0
    /\ UNCHANGED <<urls, arg, ret>>

EndUrl(lg, ob) ==
    /\ log' = lg
    /\ obs' = ob
    /\ outcomes' = Append(outcomes, Summary(lg, ob))
    /\ idx' = idx + 1
    /\ pc' = "loop"
    /\ videoData' = None
    /\ useDirectExtraction' = FALSE
    /\ photoData' = None
    /\ i' = 0
    /\ UNCHANGED <<urls, arg, ret>>

(***************************************************************************)
(* processors/videoProcessor.js and downloadService.downloadVideo          *)
(***************************************************************************)
\* extractVideoDataFromJson is called only on a non-empty text
ExtractorCalled(html) ==
    html.element /\ IsSome(html.rawJSON) /\ Get(html.rawJSON).kind # "empty"

\* line 93: downloadVideo is entered and suspends in downloadFile
StartDownloadVideo(vd, direct, lg, ob) ==
    /\ videoData' = Some(vd)
    /\ useDirectExtraction' = direct
    /\ log' = lg
    /\ obs' = RequestMedia(ob, vd.videoUrl)
    /\ pc' = "media"
    /\ UNCHANGED <<urls, arg, ret, idx, photoData, i, files, dirs, outcomes>>

\* mutant: the API is asked twice (a retry)
StartFallback_Retry(lg, ob) ==
    /\ log' = lg \o <<"HTML extraction failed. Using API as backup...">>
    /\ obs' = RequestApi_Twice(ob)
    /\ pc' = "api_video"
    /\ UNCHANGED <<urls, arg, ret, idx, videoData, useDirectExtraction, photoData, i,
                   files, dirs, outcomes>>

\* lines 70-72: the API is asked
StartFallback(lg, ob) ==
    /\ log' = lg \o <<"HTML extraction failed. Using API as backup...">>
    /\ obs' = RequestApi(ob)
    /\ pc' = "api_video"
    /\ UNCHANGED <<urls, arg, ret, idx, videoData, useDirectExtraction, photoData, i,
                   files, dirs, outcomes>>

\* mutant: a URL already downloaded earlier in the batch is not processed
\* again (a cache shared by the URLs of the batch)
AfterExtraction_SkipIfDownloaded(d, lg, ob) ==
    IF \E k \in 1..(idx - 1) : outcomes[k].url = urls[idx] /\ outcomes[k].downloaded
    THEN /\ EndUrl(lg \o <<"Already downloaded">>, ob)
         /\ UNCHANGED <<files, dirs>>
    ELSE IF IsSome(d)
    THEN StartDownloadVideo(Get(d), TRUE,
             lg \o <<"METHOD: Direct extraction from HTML successful">>, ob)
    ELSE StartFallback(lg, ob)

\* mutant: the guard of line 70 is lost, the API is asked in every case
AfterExtraction_AlwaysFallback(d, lg, ob) == StartFallback(lg, ob)

\* mutant: a failed primary extraction gives the URL up
AfterExtraction_NoFallback(d, lg, ob) ==
    IF IsSome(d)
    THEN StartDownloadVideo(Get(d), TRUE,
             lg \o <<"METHOD: Direct extraction from HTML successful">>, ob)
    ELSE /\ EndUrl(lg \o <<"Failed to process video">>,
                   [ob EXCEPT !.failedStep = "extraction"])
         /\ UNCHANGED <<files, dirs>>

\* lines 60-93, d being the value of extractVideoDataFromJson (or None when
\* it was not called)
AfterExtraction(d, lg, ob) ==
    IF IsSome(d)
    THEN StartDownloadVideo(Get(d), TRUE,
             lg \o <<"METHOD: Direct extraction from HTML successful">>, ob)
    ELSE StartFallback(lg, ob)

\* mutant: a page request that fails is answered by asking the API
processVideoPost_Html_FallbackOnError ==
    /\ pc = "html"
    /\ \E reply \in PageReplies :
         LET ob == [obs EXCEPT !.pageReply = Some(reply)] IN
         IF ~IsSome(reply)
         THEN StartFallback(log \o <<"Error fetching HTML">>, ob)
         ELSE LET html == Get(reply)
                  d    == directExtraction(html)
                  lg   == IF ExtractorCalled(html) /\ ~IsSome(d)
                          THEN log \o <<"Error extracting video data">>
                          ELSE log
              IN  AfterExtraction(d, lg, ob)

\* the reply to handleHtml's request arrives
processVideoPost_Html ==
    /\ pc = "html"
    /\ \E reply \in PageReplies :
         LET ob == [obs EXCEPT !.pageReply = Some(reply)] IN
         IF ~IsSome(reply)
         THEN /\ EndUrl(log \o <<"Error fetching HTML", "Failed to process video">>,
                        [ob EXCEPT !.failedStep = "page"])
              /\ UNCHANGED <<files, dirs>>
         ELSE LET html == Get(reply)
                  d    == directExtraction(html)
                  lg   == IF ExtractorCalled(html) /\ ~IsSome(d)
                          THEN log \o <<"Error extracting video data">>
                          ELSE log
              IN  AfterExtraction(d, lg, ob)

\* the reply to getMediaInfoFromAPI's request arrives (video flow)
processVideoPost_Api ==
    /\ pc = "api_video"
    /\ \E reply \in ApiReplies :
         LET ob == [obs EXCEPT !.apiReply = Some(reply)]
             r  == getMediaInfoFromAPI(reply)
         IN
         IF r.threw
         THEN /\ EndUrl(log \o <<"Error fetching info from API",
                                 "Failed to process video">>,
                        [ob EXCEPT !.failedStep = "fallback"])
              /\ UNCHANGED <<files, dirs>>
         ELSE LET d == apiVideoData(Val(r)) IN
              IF d.threw
              THEN /\ EndUrl(log \o <<"Failed to process video">>,
                             [ob EXCEPT !.failedStep = "fallback"])
                   /\ UNCHANGED <<files, dirs>>
              ELSE StartDownloadVideo(Val(d), FALSE,
                       log \o <<"METHOD: Using backup API successful">>, ob)

\* mutant: the file name carries the position of the URL in the batch
downloadVideo_Response_NumberedName ==
    /\ pc = "media"
    /\ \E out \in MediaOutcomes(Get(videoData).videoUrl) :
         LET ob == [obs EXCEPT !.mediaReplies = Append(@, out)] IN
         IF out = "rejected"
         THEN /\ EndUrl(log \o <<"Error downloading file", "Failed to process video">>,
                        [ob EXCEPT !.failedStep = "media"])
              /\ UNCHANGED <<files, dirs>>
         ELSE \E w \in WriteOutcomes(dirs, VIDEO_DIR) :
                LET path == VIDEO_DIR \o "/" \o ToString(idx) \o "_"
                              \o VideoFileName(Get(videoData))
                    obw  == [ob EXCEPT !.writes = Append(@, w)]
                IN
                /\ dirs' = IF w = "mkdir_throws" THEN dirs ELSE dirs \cup {VIDEO_DIR}
                /\ files' = IF w = "written" THEN files \cup {path} ELSE files
                /\ IF w = "written"
                   THEN EndUrl(log \o <<"Video successfully downloaded", "Method used">>,
                               [obw EXCEPT !.written = Append(@, path)])
                   ELSE EndUrl(log \o <<"Failed to process video">>,
                               [obw EXCEPT !.failedStep = "storage"])

\* mutant: the video directory is made before the media is fetched
downloadVideo_Response_MkdirFirst ==
    /\ pc = "media"
    /\ \E out \in MediaOutcomes(Get(videoData).videoUrl) :
         LET ob == [obs EXCEPT !.mediaReplies = Append(@, out)] IN
         IF out = "rejected"
         THEN /\ EndUrl(log \o <<"Error downloading file", "Failed to process video">>,
                        [ob EXCEPT !.failedStep = "media"])
              /\ dirs' = dirs \cup {VIDEO_DIR}
              /\ UNCHANGED files
         ELSE \E w \in {"written", "write_throws"} :
                LET path == VIDEO_DIR \o "/" \o VideoFileName(Get(videoData))
                    obw  == [ob EXCEPT !.writes = Append(@, w)]
                IN
                /\ dirs' = dirs \cup {VIDEO_DIR}
                /\ files' = IF w = "written" THEN files \cup {path} ELSE files
                /\ IF w = "written"
                   THEN EndUrl(log \o <<"Video successfully downloaded", "Method used">>,
                               [obw EXCEPT !.written = Append(@, path)])
                   ELSE EndUrl(log \o <<"Failed to process video">>,
                               [obw EXCEPT !.failedStep = "storage"])

\* the reply to downloadFile's request arrives; the file is written
downloadVideo_Response ==
    /\ pc = "media"
    /\ \E out \in MediaOutcomes(Get(videoData).videoUrl) :
         LET ob == [obs EXCEPT !.mediaReplies = Append(@, out)] IN
         IF out = "rejected"
         THEN /\ EndUrl(log \o <<"Error downloading file", "Failed to process video">>,
                        [ob EXCEPT !.failedStep = "media"])
              /\ UNCHANGED <<files, dirs>>
         ELSE \E w \in WriteOutcomes(dirs, VIDEO_DIR) :
                LET path == VIDEO_DIR \o "/" \o VideoFileName(Get(videoData))
                    obw  == [ob EXCEPT !.writes = Append(@, w)]
                IN
                /\ dirs' = IF w = "mkdir_throws" THEN dirs ELSE dirs \cup {VIDEO_DIR}
                /\ files' = IF w = "written" THEN files \cup {path} ELSE files
                /\ IF w = "written"
                   THEN EndUrl(log \o <<"Video successfully downloaded", "Method used">>,
                               [obw EXCEPT !.written = Append(@, path),
                                           !.data = Append(@, Get(videoData).videoUrl),
                                           !.returned = Some(VideoFileName(Get(videoData)))])
                   ELSE EndUrl(log \o <<"Failed to process video">>,
                               [obw EXCEPT !.failedStep = "storage"])

(***************************************************************************)
(* processors/photoProcessor.js and downloadService.downloadImages         *)
(***************************************************************************)
\* the head of the for loop of downloadImages with i = k; when the loop is
\* over downloadImages returns and processPhotoPost logs its last message
downloadImages_Loop(args, k, lg, ob) ==
    IF k < Len(args.imageUrls)
    THEN /\ photoData' = Some(args)
         /\ i' = k
         /\ log' = lg
         /\ obs' = RequestMedia(ob, Some(args.imageUrls[k + 1]))
         /\ pc' = "image"
         /\ UNCHANGED <<urls, arg, ret, idx, videoData, useDirectExtraction, outcomes>>
    ELSE EndUrl(lg \o <<"All images successfully downloaded">>, ob)

\* mutant: the try/catch sits inside the loop, the next image is tried
downloadImages_Catch_Continue(args, lg, ob) ==
    downloadImages_Loop(args, i + 1, lg \o <<"Error downloading images">>, ob)

\* lines 67-69: the catch of downloadImages logs and returns normally, and
\* processPhotoPost goes on to line 60
downloadImages_Catch(args, lg, ob) ==
    EndUrl(lg \o <<"Error downloading images",
                   "All images successfully downloaded">>, ob)

\* the reply to getMediaInfoFromAPI's request arrives (photo flow)
processPhotoPost_Api ==
    /\ pc = "api_photo"
    /\ UNCHANGED <<files, dirs>>
    /\ \E reply \in ApiReplies :
         LET ob == [obs EXCEPT !.apiReply = Some(reply)]
             r  == getMediaInfoFromAPI(reply)
         IN
         IF r.threw
         THEN EndUrl(log \o <<"Error fetching info from API",
                              "Failed to process photo">>,
                     [ob EXCEPT !.failedStep = "fallback"])
         ELSE LET a == apiPhotoData(Val(r)) IN
              IF a.threw
              THEN EndUrl(log \o <<"Failed to process photo">>,
                          [ob EXCEPT !.failedStep = "fallback"])
              ELSE downloadImages_Loop(Val(a), 0, log, ob)

\* the reply to the request of image i arrives; the file is written
downloadImages_Response ==
    /\ pc = "image"
    /\ LET args == Get(photoData) IN
       \E out \in MediaOutcomes(Some(args.imageUrls[i + 1])) :
         LET ob == [obs EXCEPT !.mediaReplies = Append(@, out)] IN
         IF out = "rejected"
         THEN /\ downloadImages_Catch(args, log, [ob EXCEPT !.failedStep = "media"])
              /\ UNCHANGED <<files, dirs>>
         ELSE \E w \in WriteOutcomes(dirs, IMAGE_DIR) :
                LET path == IMAGE_DIR \o "/" \o
                            ImageFileName(args.authorId, args.timestamp, args.imageId, i)
                    obw  == [ob EXCEPT !.writes = Append(@, w)]
                IN
                /\ dirs' = IF w = "mkdir_throws" THEN dirs ELSE dirs \cup {IMAGE_DIR}
                /\ files' = IF w = "written" THEN files \cup {path} ELSE files
                /\ IF w = "written"
                   THEN downloadImages_Loop(args, i + 1,
                            log \o <<"Image successfully downloaded">>,
                            [obw EXCEPT !.written = Append(@, path),
                                        !.data = Append(@, Some(args.imageUrls[i + 1]))])
                   ELSE downloadImages_Catch(args, log,
                            [obw EXCEPT !.failedStep = "storage"])

(***************************************************************************)
(* index.js, processUrls                                                   *)
(***************************************************************************)
\* lines 66-71: the processor of the URL runs up to its first await
Dispatch(url, ob) ==
    /\ IF IsPhotoUrl(url)
       THEN /\ pc' = "api_photo"
            /\ log' = <<"Processing photo">>
            /\ obs' = RequestApi([ob EXCEPT !.route = "photo"])
       ELSE /\ pc' = "html"
            /\ log' = <<"Processing video">>
            /\ obs' = RequestPage([ob EXCEPT !.route = "video"])
    /\ UNCHANGED <<urls, arg, ret, idx, videoData, useDirectExtraction, photoData, i,
                   files, dirs, outcomes>>

\* lines 55-58: the URL fails validation
processUrls_Invalid ==
    /\ pc = "loop"
    /\ idx <= Len(urls)
    /\ ~validateURL(urls[idx])
    /\ EndUrl(<<"Invalid TikTok URL">>, [InitObs EXCEPT !.failedStep = "validation"])
    /\ UNCHANGED <<files, dirs>>

\* lines 60-71 for a URL that is not delayed
processUrls_Begin ==
    /\ pc = "loop"
    /\ idx <= Len(urls)
    /\ validateURL(urls[idx])
    /\ ~(IndexOf(urls, urls[idx]) > 0)
    /\ Dispatch(urls[idx], InitObs)

\* lines 62-64: the pacing timer is started
processUrls_Delay ==
    /\ pc = "loop"
    /\ idx <= Len(urls)
    /\ validateURL(urls[idx])
    /\ IndexOf(urls, urls[idx]) > 0
    /\ pc' = "delay"
    /\ log' = <<>>
    /\ obs' = [InitObs EXCEPT !.delayed = TRUE]
    /\ UNCHANGED <<urls, arg, ret, idx, videoData, useDirectExtraction, photoData, i,
                   files, dirs, outcomes>>

\* the timer fires
processUrls_DelayElapsed ==
    /\ pc = "delay"
    /\ Dispatch(urls[idx], obs)

\* line 77: the loop is over
processUrls_Finish ==
    /\ pc = "loop"
    /\ idx > Len(urls)
    /\ pc' = "done"
    /\ UNCHANGED <<urls, arg, ret, idx, videoData, useDirectExtraction, photoData, i,
                   files, dirs, log, obs, outcomes>>

Next ==
    \/ processUrls_Invalid
    \/ processUrls_Begin
    \/ processUrls_Delay
    \/ processUrls_DelayElapsed
    \/ processVideoPost_Html
    \/ processVideoPost_Api
    \/ downloadVideo_Response
    \/ processPhotoPost_Api
    \/ downloadImages_Response
    \/ processUrls_Finish

Spec == Init /\ [][Next]_vars

(***************************************************************************)
(* The functions of the program applied on their own.  arg holds the       *)
(* function and its argument, ret its outcome once it has returned.        *)
(*                                                                         *)
(* The item records cover every shape of the bitrate path                  *)
(* (bitrateInfo, its first entry, the entry's PlayAddr, its UrlList, the   *)
(* first element of the list) together with every shape of playAddr.       *)
(***************************************************************************)
BitrateUrl2 == "https://cdn.example/bitrate2.mp4"
UrlLists ==
    { None, Some(<<>>), Some(<<"">>), Some(<<BitrateUrl>>),
      Some(<<BitrateUrl, BitrateUrl2>>), Some(<<"", BitrateUrl>>) }
Entries ==
    { None, Some([PlayAddr |-> None]) }
    \cup { Some([PlayAddr |-> Some([UrlList |-> l])]) : l \in UrlLists }
BitrateInfos ==
    { None, Some(<<>>) }
    \cup { Some(<<e>>) : e \in Entries }
    \cup { Some(<<e, EntryOf(<<BitrateUrl2>>)>>) :
             e \in {None, EntryOf(<<>>), EntryOf(<<BitrateUrl>>)} }
Videos ==
    { [bitrateInfo |-> b, playAddr |-> p] :
        b \in BitrateInfos, p \in {None, Some(""), Some(PlayAddrUrl)} }
Items ==
    { [author |-> a, video |-> v, id |-> m[1], createTime |-> m[2]] :
        a \in {None, Some([uniqueId |-> None]), AuthorAlice},
        v \in {None} \cup { Some(x) : x \in Videos },
        m \in { <<Some("123"), Some(1700000000)>>, <<None, None>> } }
Docs ==
    { EmptyDoc,
      [DEFAULT_SCOPE |-> Some([video_detail |-> None])],
      [DEFAULT_SCOPE |-> Some([video_detail |-> Some([itemInfo |-> None])])],
      DocOf(None) }
    \cup { DocOf(Some(it)) : it \in Items }
JsonTexts ==
    { [kind |-> "empty", doc |-> EmptyDoc],
      [kind |-> "malformed", doc |-> EmptyDoc] }
    \cup { [kind |-> "json", doc |-> d] : d \in Docs }

\* strings around the accepted shape: other schemes, other subdomains,
\* other hosts, hosts that merely begin with or end in tiktok.com
UrlStrings ==
    { Str(sch \o sub \o host \o path) :
        sch  \in { <<"http://">>, <<"https://">>, <<"ftp://">>, <<>>,
                   <<" ", "https://">>, <<"HTTPS://">> },
        sub  \in { <<>>, <<"www.">>, <<"vm.">>, <<"m.">> },
        host \in { <<"tiktok.com">>, <<"example.com">>,
                   <<"tiktok.com", ".evil.example">>, <<"not", "tiktok.com">> },
        path \in { <<>>, <<"/">>, <<"/", "@user1", "/video/", "123">>,
                   <<"/", "@user3", "/photo/", "345">>, <<"?", "lang=en">> } }
UrlValues == UrlStrings \cup { Str(<<>>), NotAString }

\* timestamps: None stands for every value of which new Date(timestamp *
\* 1000) is an Invalid Date (undefined, a non-numeric value, NaN, a number
\* beyond the range of Date)
Timestamps ==
    { None, Some(0), Some(86399), Some(951782400), Some(1700000000),
      Some(1709251200), Some(1735689599) }

FnCalls ==
    { [fn |-> "extractVideoUrl", in |-> v] : v \in Videos }
    \cup { [fn |-> "extractVideoDataFromJson", in |-> t] : t \in JsonTexts }
    \cup { [fn |-> "validateURL", in |-> u] : u \in UrlValues }
    \cup { [fn |-> "formatUploadDate", in |-> t] : t \in Timestamps }

FnInit ==
    /\ arg \in { Some(c) : c \in FnCalls }
    /\ ret = None
    /\ pc = "call"
    /\ urls = <<>>
    /\ idx = 1
    /\ videoData = None
    /\ useDirectExtraction = FALSE
    /\ photoData = None
    /\ i = 0
    /\ files = {}
    /\ dirs = {}
    /\ log = <<>>
    /\ obs = InitObs
    /\ outcomes = <<>>

Returns(r) ==
    /\ ret' = Some(r)
    /\ pc' = "return"
    /\ UNCHANGED <<urls, arg, idx, videoData, useDirectExtraction, photoData, i,
                   files, dirs, log, obs, outcomes>>

Apply_extractVideoUrl ==
    /\ pc = "call"
    /\ Get(arg).fn = "extractVideoUrl"
    /\ Returns(extractVideoUrl(Get(arg).in))

Apply_extractVideoDataFromJson ==
    /\ pc = "call"
    /\ Get(arg).fn = "extractVideoDataFromJson"
    /\ Returns(extractVideoDataFromJson_Outcome(Get(arg).in))

Apply_validateURL ==
    /\ pc = "call"
    /\ Get(arg).fn = "validateURL"
    /\ Returns(Ok(validateURL(Get(arg).in)))

\* formatUploadDate has no throw statement and calls nothing that throws
Apply_formatUploadDate ==
    /\ pc = "call"
    /\ Get(arg).fn = "formatUploadDate"
    /\ Returns(Ok(formatUploadDate(Get(arg).in)))

FnNext ==
    \/ Apply_extractVideoUrl
    \/ Apply_extractVideoDataFromJson
    \/ Apply_validateURL
    \/ Apply_formatUploadDate

SpecFunctions == FnInit /\ [][FnNext]_vars

(***************************************************************************)
(* A URL processed twice in one batch with identical replies.  The batch   *)
(* is <<u, u>> for a valid URL u, and arg holds the replies u receives     *)
(* each time: the reply to its page request, the reply to its API          *)
(* request, the position of the media request that is rejected (0: none)   *)
(* and the outcome of its writes.  For such a batch validateURL is true    *)
(* and urls.indexOf(url) is 0 at both positions, so the steps              *)
(* processUrls_Invalid, processUrls_Delay and processUrls_DelayElapsed     *)
(* cannot occur.                                                           *)
(***************************************************************************)
Scripts ==
    { [pageReply |-> p, apiReply |-> a, rejectedAt |-> f, write |-> w] :
        p \in PageReplies, a \in ApiReplies, f \in 0..MaxImages,
        w \in {"written", "write_throws", "mkdir_throws"} }

TwiceInit ==
    /\ urls \in { <<u, u>> : u \in {VideoUrl, PhotoUrl} }
    /\ arg \in { Some(sc) : sc \in Scripts }
    /\ (urls[1] = VideoUrl => Get(arg).rejectedAt <= 1)
    /\ (urls[1] = PhotoUrl => Get(arg).pageReply = None)
    /\ ret = None
    /\ idx = 1
    /\ pc = "loop"
    /\ videoData = None
    /\ useDirectExtraction = FALSE
    /\ photoData = None
    /\ i = 0
    /\ files = {}
    /\ dirs \in {{}, {VIDEO_DIR, IMAGE_DIR}}
    /\ log = <<>>
    /\ obs = InitObs
    /\ outcomes = <<>>

\* the replies recorded in ob are those of the script
FollowsScript(ob) ==
    LET sc == Get(arg) IN
    /\ IsSome(ob.pageReply) => Get(ob.pageReply) = sc.pageReply
    /\ IsSome(ob.apiReply) => Get(ob.apiReply) = sc.apiReply
    /\ \A k \in 1..Len(ob.mediaReplies) :
          ob.mediaReplies[k] = (IF k = sc.rejectedAt THEN "rejected" ELSE "bytes")
    /\ \A k \in 1..Len(ob.writes) : ob.writes[k] = sc.write

Twice_processVideoPost_Html == processVideoPost_Html /\ FollowsScript(obs')
Twice_processVideoPost_Api == processVideoPost_Api /\ FollowsScript(obs')
Twice_downloadVideo_Response == downloadVideo_Response /\ FollowsScript(obs')
Twice_processPhotoPost_Api == processPhotoPost_Api /\ FollowsScript(obs')
Twice_downloadImages_Response == downloadImages_Response /\ FollowsScript(obs')

TwiceNext ==
    \/ processUrls_Begin
    \/ Twice_processVideoPost_Html
    \/ Twice_processVideoPost_Api
    \/ Twice_downloadVideo_Response
    \/ Twice_processPhotoPost_Api
    \/ Twice_downloadImages_Response
    \/ processUrls_Finish

SpecTwice == TwiceInit /\ [][TwiceNext]_vars

\* the function fn has returned
Returned(fn) == pc = "return" /\ IsSome(arg) /\ Get(arg).fn = fn
ArgIn == Get(arg).in
Ret == Get(ret)

(***************************************************************************)
(* C1.  In the video flow, whenever the page fetch succeeds and primary    *)
(* extraction yields no descriptor (no data element, no or empty text,     *)
(* malformed JSON, a missing key on the path, a missing author or video,   *)
(* no resolvable URL), the fallback API is called exactly once for that    *)
(* URL, and the URL is not reported successful only if the API reply is    *)
(* unusable, the media request is rejected or the write fails.             *)
(***************************************************************************)
PrimaryYieldsNothing(ob) ==
    ob.route = "video" /\ PageReceived(ob) /\ PageOf(ob) \in NoDataPages \cup BadJsonPages

C1_FallbackOnceAfterPrimaryFailure ==
    PrimaryYieldsNothing(obs) =>
        /\ obs.apiCalls = 1
        /\ obs.pageFetches = 1
        /\ (UrlEnded /\ Reported(log) # "success") =>
              \/ ApiFailed(obs)
              \/ ~ApiHasResult(obs)
              \/ ~UsableVideoResult(ApiResultOf(obs))
              \/ AnyRejected(obs)
              \/ AnyWriteFailed(obs)

\* a video is downloaded through the fallback after a failed primary extraction
C1_Witness ==
    /\ UrlEnded
    /\ PrimaryYieldsNothing(obs)
    /\ PageOf(obs) \in BadJsonPages
    /\ obs.apiCalls = 1
    /\ Reported(log) = "success"
    /\ Len(obs.written) = 1

(***************************************************************************)
(* C2.  In the video flow, when primary extraction returns a descriptor,   *)
(* the fallback API is never called for that URL and the one media         *)
(* request is for the URL the page carries: element 0 of the first bitrate *)
(* variant's UrlList when it is non-empty, playAddr otherwise.             *)
(***************************************************************************)
PrimaryYieldsDescriptor(ob) ==
    ob.route = "video" /\ PageReceived(ob) /\ PageOf(ob) \in GoodPages

\* the media URL of a page of GoodPages
PageMediaUrl(page) ==
    LET video == Get(Get(Get(Get(Get(Get(page.rawJSON).doc.DEFAULT_SCOPE)
                     .video_detail).itemInfo).itemStruct).video)
        first == IF IsSome(video.bitrateInfo) /\ Len(Get(video.bitrateInfo)) > 0
                 THEN FirstOfUrlList(Get(Get(video.bitrateInfo)[1]))
                 ELSE None
    IN  IF TruthyStr(first) THEN first ELSE video.playAddr

C2_PrimaryPathNeedsNoFallback ==
    PrimaryYieldsDescriptor(obs) =>
        /\ obs.apiCalls = 0
        /\ obs.apiReply = None
        /\ obs.pageFetches = 1
        /\ obs.mediaFetches = <<PageMediaUrl(PageOf(obs))>>
        /\ TruthyStr(PageMediaUrl(PageOf(obs)))

\* a video is downloaded from the URL of the page's first bitrate variant
C2_Witness ==
    /\ UrlEnded
    /\ PrimaryYieldsDescriptor(obs)
    /\ obs.mediaFetches = <<Some(BitrateUrl)>>
    /\ Reported(log) = "success"
    /\ Len(obs.written) = 1

(***************************************************************************)
(* C3.  A failed fallback is terminal for its URL: when the API call       *)
(* fails at transport level or the body's status is not "success", the     *)
(* URL has ended, it is reported failed, no media request was issued and   *)
(* no file written for it, and the API was called once.                    *)
(***************************************************************************)
C3_FailedFallbackIsTerminal ==
    ApiFailed(obs) =>
        /\ UrlEnded
        /\ Reported(log) = "failed"
        /\ obs.apiCalls = 1
        /\ obs.pageFetches <= 1
        /\ obs.mediaFetches = <<>>
        /\ obs.written = <<>>
        /\ obs.writes = <<>>

\* a video URL is skipped on a reply whose status is not "success"
C3_Witness ==
    /\ UrlEnded
    /\ obs.route = "video"
    /\ ApiFailed(obs)
    /\ IsSome(Get(obs.apiReply))
    /\ IsSome(Get(Get(obs.apiReply)).result)
    /\ Reported(log) = "failed"

(***************************************************************************)
(* C4.  No per-URL failure aborts the batch: processUrls visits every URL  *)
(* of the batch in input order, and a URL's media are downloaded (all of   *)
(* its files written) exactly when all of its own steps succeed, so that   *)
(* at the end the number of downloads is the number of such URLs.          *)
(***************************************************************************)
Downloads == { k \in 1..Len(outcomes) : outcomes[k].downloaded }
SucceedingUrls == { k \in 1..Len(outcomes) : outcomes[k].stepsOk }

C4_NoFailureAbortsTheBatch ==
    /\ Len(outcomes) = idx - 1
    /\ Len(outcomes) <= Len(urls)
    /\ \A k \in 1..Len(outcomes) : outcomes[k].url = urls[k]
    /\ Downloads = SucceedingUrls
    /\ pc = "done" =>
          /\ Len(outcomes) = Len(urls)
          /\ Cardinality(Downloads) = Cardinality(SucceedingUrls)

\* a batch whose first URL fails and whose last URL is downloaded
C4_Witness ==
    /\ pc = "done"
    /\ Len(urls) >= 2
    /\ outcomes[1].report = "failed"
    /\ ~outcomes[1].stepsOk
    /\ outcomes[Len(urls)].downloaded
    /\ Cardinality(Downloads) = Len(urls) - 1

(***************************************************************************)
(* C5.  Validation precedes all network work: for an input that is not a   *)
(* string matching the pattern no page request, no API call, no media      *)
(* request and no write is ever made; it is logged as invalid and the      *)
(* loop is at its next position.                                           *)
(***************************************************************************)
C5_InvalidUrlDoesNoWork ==
    (ObsPos >= 1 /\ ObsPos <= Len(urls) /\ ~MatchesPattern(urls[ObsPos])) =>
        /\ obs.pageFetches = 0
        /\ obs.apiCalls = 0
        /\ obs.mediaFetches = <<>>
        /\ obs.writes = <<>>
        /\ obs.written = <<>>
        /\ log = <<"Invalid TikTok URL">>
        /\ pc \in {"loop", "done"}
        /\ outcomes[ObsPos].report = "invalid"

\* a URL of another host was skipped and the batch has more to process
C5_Witness ==
    /\ pc = "loop"
    /\ idx = 2
    /\ urls[1] = OtherHostUrl
    /\ log = <<"Invalid TikTok URL">>
    /\ idx <= Len(urls)
    /\ files = {}

(***************************************************************************)
(* C6.  Every valid URL is routed to exactly one flow.  A URL with the     *)
(* marker "/photo/" is handled by the photo flow only, which never         *)
(* requests the post page, never runs the primary extractor and calls the  *)
(* API; every other valid URL is handled by the video flow only.           *)
(***************************************************************************)
C6_OneFlowPerUrl ==
    (ObsPos >= 1 /\ ObsPos <= Len(urls) /\ MatchesPattern(urls[ObsPos])
       /\ pc # "delay") =>
        IF HasPhotoMarker(urls[ObsPos])
        THEN /\ obs.route = "photo"
             /\ pc \in {"api_photo", "image", "loop", "done"}
             /\ obs.pageFetches = 0
             /\ obs.pageReply = None
             /\ obs.apiCalls = 1
             /\ ~useDirectExtraction
             /\ videoData = None
             /\ ~Has(log, "Processing video")
             /\ ~Has(log, "Error extracting video data")
             /\ ~Has(log, "METHOD: Direct extraction from HTML successful")
        ELSE /\ obs.route = "video"
             /\ pc \in {"html", "api_video", "media", "loop", "done"}
             /\ obs.pageFetches = 1
             /\ photoData = None
             /\ ~Has(log, "Processing photo")

\* a photo post is downloaded without any page request
C6_Witness ==
    /\ UrlEnded
    /\ HasPhotoMarker(urls[ObsPos])
    /\ obs.route = "photo"
    /\ obs.pageFetches = 0
    /\ Len(obs.written) >= 1
    /\ Reported(log) = "success"

(***************************************************************************)
(* C7.  In the video flow the media download is started only with a        *)
(* descriptor whose media URL is present and non-empty: an API reply with  *)
(* status "success" and type "video" whose video.playAddr list is absent   *)
(* or empty is a failure, with no media request attempted.                 *)
(***************************************************************************)
PlayAddrAbsentOrEmpty(r) ==
    /\ r.type = "video"
    /\ \/ ~IsSome(r.video)
       \/ ~IsSome(Get(r.video).playAddr)
       \/ Len(Get(Get(r.video).playAddr)) = 0

C7_DownloadOnlyWithMediaUrl ==
    obs.route = "video" =>
        /\ \A k \in 1..Len(obs.mediaFetches) : TruthyStr(obs.mediaFetches[k])
        /\ pc = "media" => TruthyStr(Get(videoData).videoUrl)
        /\ (ApiHasResult(obs) /\ PlayAddrAbsentOrEmpty(ApiResultOf(obs))) =>
              /\ UrlEnded
              /\ Reported(log) = "failed"
              /\ obs.mediaFetches = <<>>

(***************************************************************************)
(* C8.  In the photo flow image downloading starts only if the API result  *)
(* has type "image" and a non-empty images list; when the type differs or  *)
(* the list is absent or empty the URL has ended, reported failed, with    *)
(* no image request and no file written.                                   *)
(***************************************************************************)
C8_PhotoNeedsImageResult ==
    (obs.route = "photo" /\ ApiHasResult(obs) /\ ~ImageResult(ApiResultOf(obs))) =>
        /\ UrlEnded
        /\ Reported(log) = "failed"
        /\ obs.mediaFetches = <<>>
        /\ obs.writes = <<>>
        /\ obs.written = <<>>

\* a photo URL is skipped on a result of type "image" with an empty list
C8_Witness ==
    /\ UrlEnded
    /\ obs.route = "photo"
    /\ ApiHasResult(obs)
    /\ ApiResultOf(obs).type = "image"
    /\ ApiResultOf(obs).images = Some(<<>>)
    /\ Reported(log) = "failed"

(***************************************************************************)
(* C9.  The image downloads of one photo post are strictly sequential and  *)
(* abort on the first failure.  At every moment the files written for the  *)
(* post are those of indices 1..j in order, the requests issued are those  *)
(* of images 1..j or 1..j+1 in list order, each once; when the request or  *)
(* the write of image k fails the post has ended with exactly the files    *)
(* 1..k-1 written and no request for images k+1..N.                        *)
(***************************************************************************)
PhotoUnderWay(ob) ==
    /\ ob.route = "photo"
    /\ ApiHasResult(ob)
    /\ ImageResult(ApiResultOf(ob))
    /\ IsSome(ApiResultOf(ob).author)

\* the path of the file of image k (1-based) of the post of an API result
ImagePath(r, k) ==
    IMAGE_DIR \o "/" \o Interpolate(Get(r.author).username) \o "_image_"
      \o formatUploadDate(r.createTime) \o "_" \o Interpolate(r.id)
      \o "_" \o ToString(k) \o ".jpg"

C9_ImagesSequentialAbortOnFailure ==
    PhotoUnderWay(obs) =>
        LET r == ApiResultOf(obs)
            list == Get(r.images)
            j == Len(obs.written)
            m == Len(obs.mediaFetches)
        IN  /\ m <= Len(list)
            /\ j <= m
            /\ m <= j + 1
            /\ \A k \in 1..m : obs.mediaFetches[k] = Some(list[k])
            /\ \A k \in 1..j : obs.written[k] = ImagePath(r, k) /\ ImagePath(r, k) \in files
            /\ Len(obs.mediaReplies) <= m
            /\ pc = "image" => (m = j + 1 /\ i = j /\ Len(obs.mediaReplies) = j)
            /\ UrlEnded => Len(obs.mediaReplies) = m
            /\ (AnyRejected(obs) \/ AnyWriteFailed(obs)) =>
                  /\ UrlEnded
                  /\ m = j + 1
                  /\ \A k \in 1..j : obs.mediaReplies[k] = "bytes" /\ obs.writes[k] = "written"

\* of three images the second is rejected: file 1 is written, image 3 is
\* never requested
C9_Witness ==
    /\ UrlEnded
    /\ PhotoUnderWay(obs)
    /\ Len(Get(ApiResultOf(obs).images)) = 3
    /\ obs.mediaReplies = <<"bytes", "rejected">>
    /\ obs.mediaFetches = <<Some(ImageUrl(1)), Some(ImageUrl(2))>>
    /\ obs.written = <<ImagePath(ApiResultOf(obs), 1)>>

(***************************************************************************)
(* C10.  When an image request of a photo post fails, the post is reported *)
(* failed, once, and is not reported as successfully downloaded.           *)
(***************************************************************************)
Count(lg, msg) == Cardinality({ k \in 1..Len(lg) : lg[k] = msg })

C10_FailedImageIsReportedFailed ==
    (UrlEnded /\ obs.route = "photo" /\ AnyRejected(obs)) =>
        /\ Reported(log) = "failed"
        /\ ~Has(log, "All images successfully downloaded")
        /\ Count(log, "Error downloading images") + Count(log, "Failed to process photo") = 1
        /\ ~outcomes[ObsPos].downloaded

(***************************************************************************)
(* C11.  A photo post whose API result lists N >= 1 image URLs, all of     *)
(* whose fetches and writes succeed, leaves exactly N files behind: the    *)
(* k-th file written (k = 1..N) is named                                   *)
(* {authorHandle}_image_{DDMMYYYY}_{postId}_{k}.jpg in the image           *)
(* directory and holds the bytes of the k-th URL of the list; no index is  *)
(* skipped or repeated.                                                    *)
(***************************************************************************)
\* the calendar date (UTC) of the publication times of the posts at hand
DDMMYYYY(ts) ==
    CASE ts = 1700000000 -> "14112023"
      [] ts = 1709251200 -> "01032024"

\* a photo post with handle, identifier and publication time, every image
\* of which was fetched and written
PhotoAllSucceeded ==
    /\ UrlEnded
    /\ PhotoUnderWay(obs)
    /\ IsSome(Get(ApiResultOf(obs).author).username)
    /\ IsSome(ApiResultOf(obs).id)
    /\ IsSome(ApiResultOf(obs).createTime)
    /\ ~AnyRejected(obs)
    /\ ~AnyWriteFailed(obs)

ExpectedImagePath(r, k) ==
    IMAGE_DIR \o "/" \o Get(Get(r.author).username) \o "_image_"
      \o DDMMYYYY(Get(r.createTime)) \o "_" \o Get(r.id) \o "_"
      \o ToString(k) \o ".jpg"

C11_OneFilePerImageInOrder ==
    PhotoAllSucceeded =>
        LET r    == ApiResultOf(obs)
            list == Get(r.images)
            N    == Len(list)
        IN  /\ N >= 1
            /\ Len(obs.writes) = N
            /\ Len(obs.written) = N
            /\ Len(obs.data) = N
            /\ \A k \in 1..N :
                  /\ obs.written[k] = ExpectedImagePath(r, k)
                  /\ obs.data[k] = Some(list[k])
                  /\ obs.written[k] \in files
            /\ \A k, m \in 1..N : obs.written[k] = obs.written[m] => k = m

C11_Witness ==
    /\ PhotoAllSucceeded
    /\ Len(Get(ApiResultOf(obs).images)) >= 2
    /\ Len(obs.written) = Len(Get(ApiResultOf(obs).images))

(***************************************************************************)
(* Vocabulary of the extractor properties.                                 *)
(***************************************************************************)
\* the first element of bitrateInfo[0].PlayAddr.UrlList when every level
\* of that path is present, None otherwise
BitrateFirst(video) ==
    IF ~IsSome(video.bitrateInfo) THEN None
    ELSE LET list == Get(video.bitrateInfo) IN
         IF Len(list) = 0 \/ ~IsSome(list[1]) THEN None
         ELSE LET pa == Get(list[1]).PlayAddr IN
              IF ~IsSome(pa) \/ ~IsSome(Get(pa).UrlList) THEN None
              ELSE IF Len(Get(Get(pa).UrlList)) = 0 THEN None
              ELSE Some(Get(Get(pa).UrlList)[1])

\* the item record of a text, None when the text is not JSON or a level
\* above the item record is missing
TextItem(t) ==
    IF t.kind # "json" \/ ~IsSome(t.doc.DEFAULT_SCOPE) THEN None
    ELSE LET vd == Get(t.doc.DEFAULT_SCOPE).video_detail IN
         IF ~IsSome(vd) \/ ~IsSome(Get(vd).itemInfo) THEN None
         ELSE Get(Get(vd).itemInfo).itemStruct

HasAuthorAndVideo(t) ==
    /\ IsSome(TextItem(t))
    /\ IsSome(Get(TextItem(t)).author)
    /\ IsSome(Get(TextItem(t)).video)

(***************************************************************************)
(* C12.  Whenever the video of the item record has a bitrateInfo list      *)
(* whose first entry carries PlayAddr.UrlList with a non-empty first       *)
(* element, the primary extractor returns that element as the media URL,   *)
(* whatever video.playAddr holds.                                          *)
(***************************************************************************)
C12_BitrateVariantPreferred ==
    /\ (Returned("extractVideoUrl") /\ TruthyStr(BitrateFirst(ArgIn))) =>
          Ret = Ok(Get(BitrateFirst(ArgIn)))
    /\ (/\ Returned("extractVideoDataFromJson")
        /\ HasAuthorAndVideo(ArgIn)
        /\ TruthyStr(BitrateFirst(Get(Get(TextItem(ArgIn)).video)))) =>
          /\ ~Ret.threw
          /\ IsSome(Val(Ret))
          /\ Get(Val(Ret)).videoUrl =
                BitrateFirst(Get(Get(TextItem(ArgIn)).video))

C12_Witness ==
    /\ Returned("extractVideoUrl")
    /\ TruthyStr(BitrateFirst(ArgIn))
    /\ TruthyStr(ArgIn.playAddr)
    /\ Get(BitrateFirst(ArgIn)) # Get(ArgIn.playAddr)
    /\ Ret = Ok(Get(BitrateFirst(ArgIn)))

(***************************************************************************)
(* C13.  If the bitrate path is absent or empty at any level (bitrateInfo, *)
(* its first entry, that entry's PlayAddr, its UrlList, the first element  *)
(* of the list) and video.playAddr is a non-empty string, extractVideoUrl  *)
(* returns video.playAddr.                                                 *)
(***************************************************************************)
C13_PlayAddrWhenBitratePathEmpty ==
    (/\ Returned("extractVideoUrl")
     /\ ~TruthyStr(BitrateFirst(ArgIn))
     /\ TruthyStr(ArgIn.playAddr)) =>
        Ret = Ok(Get(ArgIn.playAddr))

(***************************************************************************)
(* C14.  extractVideoDataFromJson never throws: for every text it returns  *)
(* a descriptor (with a non-empty media URL) or null, and it returns null  *)
(* whenever the text is not valid JSON, the video-detail container, the    *)
(* item-info or the item record is missing, the author or the video is     *)
(* missing, or neither the bitrate path nor playAddr yields a URL.         *)
(***************************************************************************)
NoUrlInVideo(video) ==
    ~TruthyStr(BitrateFirst(video)) /\ ~TruthyStr(video.playAddr)

FailureText(t) ==
    \/ ~HasAuthorAndVideo(t)
    \/ NoUrlInVideo(Get(Get(TextItem(t)).video))

C14_ExtractorNeverThrows ==
    Returned("extractVideoDataFromJson") =>
        /\ ~Ret.threw
        /\ IsSome(Val(Ret)) => TruthyStr(Get(Val(Ret)).videoUrl)
        /\ FailureText(ArgIn) => Val(Ret) = None

C14_Witness ==
    /\ Returned("extractVideoDataFromJson")
    /\ ArgIn.kind = "malformed"
    /\ Ret = Ok(None)

(***************************************************************************)
(* C15.  The 2000 ms pacing delay is inserted before the processing of     *)
(* every valid URL at every position of the batch other than the first     *)
(* (positions, not distinct URL strings), whatever happened to the earlier *)
(* URLs, and is not inserted before the URL at the first position: a URL   *)
(* that reached its processor was delayed exactly if its position is       *)
(* greater than 1.                                                         *)
(***************************************************************************)
C15_DelayBeforeEveryLaterPosition ==
    /\ pc = "delay" => idx > 1
    /\ obs.route # "none" => (obs.delayed <=> ObsPos > 1)

(***************************************************************************)
(* C16.  Processing is strictly sequential: the URL at position k + 1 is   *)
(* not begun before the URL at position k has its outcome, and at any      *)
(* moment at most one network request is in flight: one exactly while the  *)
(* program is suspended in a request, none between two URLs, during the    *)
(* pacing delay and at the end.                                            *)
(***************************************************************************)
\* requests of the URL at hand issued and not yet answered
InFlight(ob) ==
    (ob.pageFetches - (IF IsSome(ob.pageReply) THEN 1 ELSE 0))
    + (ob.apiCalls - (IF IsSome(ob.apiReply) THEN 1 ELSE 0))
    + (Len(ob.mediaFetches) - Len(ob.mediaReplies))

Suspended == pc \in {"html", "api_video", "api_photo", "media", "image"}

PageFetchFailed(ob) ==
    ob.route = "video" /\ IsSome(ob.pageReply) /\ ~IsSome(Get(ob.pageReply))

VideoMediaFetchFailed(ob) == ob.route = "video" /\ AnyRejected(ob)

C18_TransportFailureIsTerminal ==
    /\ PageFetchFailed(obs) =>
          /\ UrlEnded
          /\ obs.apiCalls = 0
          /\ obs.mediaFetches = <<>>
          /\ obs.written = <<>>
          /\ Reported(log) = "failed"
          /\ ~outcomes[ObsPos].downloaded
    /\ VideoMediaFetchFailed(obs) =>
          /\ UrlEnded
          /\ Len(obs.mediaFetches) = 1
          /\ obs.apiCalls = (IF PrimaryYieldsDescriptor(obs) THEN 0 ELSE 1)
          /\ obs.writes = <<>>
          /\ obs.written = <<>>
          /\ Reported(log) = "failed"
          /\ ~outcomes[ObsPos].downloaded

C18_Witness ==
    /\ pc = "done"
    /\ Len(outcomes) = 2
    /\ outcomes[1].report = "failed"
    /\ ~outcomes[1].downloaded
    /\ PageFetchFailed(obs)
    /\ obs.apiCalls = 0

(***************************************************************************)
(* C19.  No failure of a URL (validation, extraction, resolver, transport, *)
(* storage) reaches the top level: for every batch processUrls goes on     *)
(* until the loop is over and resolves normally, with one outcome per      *)
(* URL; the top-level catch, which exits with code 1, is never entered.    *)
(***************************************************************************)
C19_NoFailureReachesTopLevel ==
    /\ pc \in {"loop", "delay", "html", "api_video", "api_photo", "media",
               "image", "done"}
    /\ pc # "exit1"
    /\ pc # "done" => ENABLED Next
    /\ pc = "done" =>
          /\ Len(outcomes) = Len(urls)
          /\ idx = Len(urls) + 1

\* a batch every URL of which failed has been processed to its end
C19_Witness ==
    /\ pc = "done"
    /\ Len(urls) >= 2
    /\ \A k \in 1..Len(urls) : outcomes[k].report # "success"
    /\ \E k \in 1..Len(urls) : outcomes[k].report = "invalid"
    /\ obs.failedStep \in {"page", "fallback", "media", "storage"}

(***************************************************************************)
(* C20.  validateURL returns true for every http(s) URL whose host is      *)
(* exactly tiktok.com, www.tiktok.com or vm.tiktok.com, with any path      *)
(* suffix, and false for the empty string, for every input that is not a   *)
(* string and for every string whose host is any other host.               *)
(***************************************************************************)
\* the host of a URL string: what stands between the scheme and the first
\* "/" or "?"
HostOf(s) ==
    LET stops == { k \in 2..Len(s) : s[k] \in {"/", "?"} }
        end   == IF stops = {} THEN Len(s) + 1
                 ELSE CHOOSE k \in stops : \A j \in stops : k <= j
    IN  SubSeq(s, 2, end - 1)

AcceptedHosts ==
    { <<"tiktok.com">>, <<"www.", "tiktok.com">>, <<"vm.", "tiktok.com">> }

HttpUrlOfAcceptedHost(url) ==
    /\ url.isString
    /\ Len(url.s) >= 2
    /\ url.s[1] \in {"http://", "https://"}
    /\ HostOf(url.s) \in AcceptedHosts

OtherHost(url) ==
    url.isString /\ url.s # <<>> /\ HostOf(url.s) \notin AcceptedHosts

C20_ValidateUrlByHost ==
    Returned("validateURL") =>
        /\ HttpUrlOfAcceptedHost(ArgIn) => Ret = Ok(TRUE)
        /\ (~ArgIn.isString \/ ArgIn.s = <<>> \/ OtherHost(ArgIn)) =>
              Ret = Ok(FALSE)

(***************************************************************************)
(* Vocabulary of the video download properties.                            *)
(***************************************************************************)
\* the handle, identifier and publication time of the post the video flow
\* downloads from: those of the item record of the page when the primary
\* path yields a descriptor, those of the API result otherwise
VideoSource(ob) ==
    IF PrimaryYieldsDescriptor(ob)
    THEN LET it == Get(TextItem(Get(PageOf(ob).rawJSON))) IN
         [handle |-> Get(it.author).uniqueId, id |-> it.id,
          createTime |-> it.createTime]
    ELSE LET r == ApiResultOf(ob) IN
         [handle |-> Get(r.author).username, id |-> r.id,
          createTime |-> r.createTime]

SourceComplete(src) ==
    TruthyStr(src.handle) /\ IsSome(src.id) /\ IsSome(src.createTime)

ExpectedVideoName(src) ==
    Get(src.handle) \o "_video_" \o DDMMYYYY(Get(src.createTime)) \o "_"
      \o Get(src.id) \o ".mp4"

\* the video flow of the URL at hand has ended with a file written
VideoDownloaded(ob) == UrlEnded /\ ob.route = "video" /\ ob.written # <<>>

(***************************************************************************)
(* C21.  A successful video download performs exactly one media fetch and  *)
(* writes exactly one file, named                                          *)
(* {authorHandle}_video_{DDMMYYYY}_{postId}.mp4 (day and month padded to   *)
(* two digits) in the video directory, which exists afterwards;            *)
(* downloadVideo returns that file name.                                   *)
(***************************************************************************)
C21_OneVideoFileDeterministicName ==
    VideoDownloaded(obs) =>
        /\ Len(obs.mediaFetches) = 1
        /\ obs.mediaReplies = <<"bytes">>
        /\ obs.writes = <<"written">>
        /\ Len(obs.written) = 1
        /\ obs.written[1] \in files
        /\ VIDEO_DIR \in dirs
        /\ SourceComplete(VideoSource(obs)) =>
              /\ obs.written[1] =
                    VIDEO_DIR \o "/" \o ExpectedVideoName(VideoSource(obs))
              /\ obs.returned = Some(ExpectedVideoName(VideoSource(obs)))

\* the first URL of a batch, a post of 1 March 2024, is downloaded into a
\* video directory that did not exist
C21_Witness ==
    /\ VideoDownloaded(obs)
    /\ idx = 2
    /\ IMAGE_DIR \notin dirs
    /\ obs.written = <<VIDEO_DIR \o "/" \o "carol_video_01032024_9.mp4">>
    /\ obs.returned = Some("carol_video_01032024_9.mp4")

(***************************************************************************)
(* C22.  Provided every network call, every write and the pacing timer     *)
(* eventually returns or fails, processUrls terminates for every batch,    *)
(* and at the final report of line 77 every URL of the batch has its       *)
(* terminal outcome, downloaded or skipped.  In finite-run form: as long   *)
(* as the final report is not reached the program waits for a reply or     *)
(* can take a step, every step brings the end strictly nearer              *)
(* (StepsLeft decreases), and at the final report every URL has its        *)
(* outcome.                                                                *)
(***************************************************************************)
\* an upper bound of the steps the URL at hand still needs
StepsLeftInUrl ==
    CASE pc = "loop"      -> MaxImages + 3
      [] pc = "delay"     -> MaxImages + 2
      [] pc = "api_photo" -> MaxImages + 1
      [] pc = "image"     -> MaxImages - i
      [] pc = "html"      -> 3
      [] pc = "api_video" -> 2
      [] pc = "media"     -> 1
      [] OTHER            -> 0

StepsLeft ==
    IF pc = "done" THEN 0
    ELSE (Len(urls) + 1 - idx) * (MaxImages + 4) + StepsLeftInUrl

AllUrlsHaveOutcome ==
    /\ pc = "done"
    /\ Len(outcomes) = Len(urls)
    /\ \A k \in 1..Len(urls) :
          /\ outcomes[k].url = urls[k]
          /\ outcomes[k].report \in {"success", "invalid", "failed"}

C22_EveryBatchTerminates ==
    /\ [](pc # "done" => ENABLED Next)
    /\ [](StepsLeft >= 0 /\ (StepsLeft = 0 => AllUrlsHaveOutcome))
    /\ [][StepsLeft' < StepsLeft]_vars

C22_Witness ==
    /\ AllUrlsHaveOutcome
    /\ Len(urls) >= 2
    /\ outcomes[1].downloaded
    /\ ~outcomes[2].downloaded

(***************************************************************************)
(* C23.  The processors report failure to their caller by rejecting:       *)
(* processVideoPost and processPhotoPost resolve only when the media was   *)
(* downloaded.  A rejection is what enters the catch of processUrls        *)
(* (index.js, lines 72-74), whose message is its only trace: a URL that    *)
(* reached its processor and was not downloaded shows that message.        *)
(***************************************************************************)
ProcessorRejected(lg) == Has(lg, "Error processing")

C23_ProcessorsRejectOnFailure ==
    (UrlEnded /\ obs.route # "none" /\ ~outcomes[ObsPos].downloaded) =>
        ProcessorRejected(log)

(***************************************************************************)
(* C24.  Every descriptor handed to the downloader, from the primary       *)
(* extractor or from the fallback path, has a present, non-empty author    *)
(* handle and a present post identifier and publication time; no file is   *)
(* written under a name built from a missing value.                        *)
(***************************************************************************)
C24_DescriptorFieldsPresent ==
    /\ pc = "media" =>
          /\ TruthyStr(Get(videoData).authorUniqueId)
          /\ IsSome(Get(videoData).videoId)
          /\ IsSome(Get(videoData).createTime)
    /\ pc = "image" =>
          /\ TruthyStr(Get(photoData).authorId)
          /\ IsSome(Get(photoData).imageId)
          /\ IsSome(Get(photoData).timestamp)
    /\ VideoDownloaded(obs) => SourceComplete(VideoSource(obs))

(***************************************************************************)
(* C25.  The fallback path normalizes to the same descriptor as the        *)
(* primary path: the descriptor handed to downloadVideo carries the        *)
(* handle, identifier and publication time of the post whichever path      *)
(* built it, so the post of alice, identifier 123, of 14 November 2023 is  *)
(* written under the same file name through the fallback as through the    *)
(* primary extraction; the fallback takes element 0 of                     *)
(* result.video.playAddr as the media URL.                                 *)
(***************************************************************************)
AlicePost ==
    [handle |-> Some("alice"), id |-> Some("123"), createTime |-> Some(1700000000)]

ViaFallback(ob) ==
    /\ ob.route = "video"
    /\ ~PrimaryYieldsDescriptor(ob)
    /\ ApiHasResult(ob)
    /\ UsableVideoResult(ApiResultOf(ob))

C25_FallbackSameDescriptorContract ==
    /\ (pc = "media" /\ (PrimaryYieldsDescriptor(obs) \/ ViaFallback(obs))) =>
          /\ Get(videoData).authorUniqueId = VideoSource(obs).handle
          /\ Get(videoData).videoId = VideoSource(obs).id
          /\ Get(videoData).createTime = VideoSource(obs).createTime
    /\ (ViaFallback(obs) /\ obs.mediaFetches # <<>>) =>
          obs.mediaFetches =
              <<Some(Get(Get(ApiResultOf(obs).video).playAddr)[1])>>
    /\ (VideoDownloaded(obs) /\ VideoSource(obs) = AlicePost) =>
          obs.written = <<VIDEO_DIR \o "/" \o "alice_video_14112023_123.mp4">>

C25_Witness ==
    /\ VideoDownloaded(obs)
    /\ ViaFallback(obs)
    /\ VideoSource(obs) = AlicePost
    /\ obs.mediaFetches = <<Some(ApiUrl0)>>
    /\ obs.written = <<VIDEO_DIR \o "/" \o "alice_video_14112023_123.mp4">>

(***************************************************************************)
(* C26.  The processing of a URL is independent of the rest of the batch:  *)
(* the descriptor, the requests issued, the files written and the outcome  *)
(* are a function of the URL and of the replies to its own requests.       *)
(* OwnRun is that function; it reads nothing but its arguments.  Between   *)
(* two URLs no descriptor or extraction result is left over.               *)
(***************************************************************************)
\* what the API reply gives the video flow and the photo flow
OwnApiVideo(apiReply) ==
    IF ~IsSome(apiReply) THEN None
    ELSE LET r == getMediaInfoFromAPI(Get(apiReply)) IN
         IF r.threw THEN None
         ELSE LET d == apiVideoData(Val(r)) IN
              IF d.threw THEN None ELSE Some(Val(d))

OwnApiPhoto(apiReply) ==
    IF ~IsSome(apiReply) THEN None
    ELSE LET r == getMediaInfoFromAPI(Get(apiReply)) IN
         IF r.threw THEN None
         ELSE LET a == apiPhotoData(Val(r)) IN
              IF a.threw THEN None ELSE Some(Val(a))

NumWritten(writes) == Cardinality({ k \in 1..Len(writes) : writes[k] = "written" })

OwnRun(url, pageReply, apiReply, mediaReplies, writes) ==
    IF ~MatchesPattern(url)
    THEN [descriptor |-> None, pageFetches |-> 0, apiCalls |-> 0,
          mediaFetches |-> <<>>, written |-> <<>>, report |-> "invalid"]
    ELSE IF HasPhotoMarker(url)
    THEN LET a == OwnApiPhoto(apiReply) IN
         [descriptor |-> a, pageFetches |-> 0, apiCalls |-> 1,
          mediaFetches |-> IF IsSome(a)
                           THEN [k \in 1..Len(mediaReplies) |->
                                    Some(Get(a).imageUrls[k])]
                           ELSE <<>>,
          written |-> IF IsSome(a)
                      THEN [k \in 1..NumWritten(writes) |->
                               IMAGE_DIR \o "/" \o
                               ImageFileName(Get(a).authorId, Get(a).timestamp,
                                             Get(a).imageId, k - 1)]
                      ELSE <<>>,
          report |-> IF IsSome(a) THEN "success" ELSE "failed"]
    ELSE LET page == IF IsSome(pageReply) THEN Get(pageReply) ELSE None
             d1   == IF IsSome(page) THEN directExtraction(Get(page)) ELSE None
             asks == IsSome(page) /\ ~IsSome(d1)
             d    == IF IsSome(d1) THEN d1
                     ELSE IF asks THEN OwnApiVideo(apiReply) ELSE None
             done == IsSome(d) /\ mediaReplies = <<"bytes">> /\ writes = <<"written">>
         IN
         [descriptor |-> d, pageFetches |-> 1,
          apiCalls |-> IF asks THEN 1 ELSE 0,
          mediaFetches |-> IF IsSome(d) THEN <<Get(d).videoUrl>> ELSE <<>>,
          written |-> IF done
                      THEN <<VIDEO_DIR \o "/" \o VideoFileName(Get(d))>>
                      ELSE <<>>,
          report |-> IF done THEN "success" ELSE "failed"]

OwnRunOf(url, ob) ==
    OwnRun(url, ob.pageReply, ob.apiReply, ob.mediaReplies, ob.writes)

C26_UrlProcessingIndependent ==
    /\ pc \in {"loop", "delay", "done"} =>
          /\ videoData = None
          /\ photoData = None
          /\ useDirectExtraction = FALSE
          /\ i = 0
    /\ pc = "media" => videoData = OwnRunOf(urls[idx], obs).descriptor
    /\ pc = "image" => photoData = OwnRunOf(urls[idx], obs).descriptor
    /\ UrlEnded =>
          LET e == OwnRunOf(urls[ObsPos], obs) IN
          /\ obs.pageFetches = e.pageFetches
          /\ obs.apiCalls = e.apiCalls
          /\ obs.mediaFetches = e.mediaFetches
          /\ obs.written = e.written
          /\ Reported(log) = e.report
          /\ outcomes[ObsPos].report = e.report
          /\ outcomes[ObsPos].url = urls[ObsPos]

\* the same URL twice in a batch, with different replies: downloaded the
\* first time, given up the second time after its own fallback failed
C26_Witness ==
    /\ UrlEnded
    /\ idx = 3
    /\ urls[1] = urls[2]
    /\ outcomes[1].downloaded
    /\ ~outcomes[2].downloaded
    /\ obs.route = "video"
    /\ obs.apiCalls = 1
    /\ obs.written = <<>>

(***************************************************************************)
(* C27.  A fallback result whose type does not fit the flow never leads    *)
(* to a download: in the video flow (URL without "/photo/"), when the API  *)
(* succeeds with a result whose type is not "video", the URL is given up   *)
(* with no media request and no file written, even if the result carries   *)
(* video data.                                                             *)
(***************************************************************************)
TypeMismatchInVideoFlow(ob) ==
    /\ ob.route = "video"
    /\ ApiHasResult(ob)
    /\ ApiResultOf(ob).type # "video"

C27_TypeMismatchNeverDownloads ==
    TypeMismatchInVideoFlow(obs) =>
        /\ UrlEnded
        /\ ~HasPhotoMarker(urls[ObsPos])
        /\ obs.mediaFetches = <<>>
        /\ obs.writes = <<>>
        /\ obs.written = <<>>
        /\ Reported(log) = "failed"
        /\ ~outcomes[ObsPos].downloaded

C27_Witness ==
    /\ TypeMismatchInVideoFlow(obs)
    /\ ApiResultOf(obs).type = "image"
    /\ IsSome(ApiResultOf(obs).video)
    /\ IsSome(ApiResultOf(obs).author)
    /\ UrlEnded
    /\ obs.mediaFetches = <<>>

(***************************************************************************)
(* C28.  The video flow is all-or-nothing on the file system.  For one     *)
(* video URL at most one write is attempted and at most one file written;  *)
(* the write comes last, after the media request was answered with the     *)
(* bytes; no step before that touches the file system, and a media         *)
(* request that fails leaves files and directories as they were, so a      *)
(* video URL given up because of a fetch, extraction or resolver failure   *)
(* made no directory and wrote no file.                                    *)
(***************************************************************************)
VideoWritesLast ==
    obs.route = "video" =>
        /\ Len(obs.writes) <= 1
        /\ Len(obs.written) <= 1
        /\ obs.writes # <<>> => (UrlEnded /\ obs.mediaReplies = <<"bytes">>)
        /\ (UrlEnded /\ obs.mediaReplies # <<"bytes">>) =>
              (obs.writes = <<>> /\ obs.written = <<>>)

FsUntouched == files' = files /\ dirs' = dirs

\* the steps before the media request is answered
BeforeMediaReply == pc \in {"loop", "delay", "html", "api_video"} => FsUntouched

\* the media request is not answered with the bytes
MediaReplyFailed == (pc = "media" /\ obs'.mediaReplies # <<"bytes">>) => FsUntouched

\* the step that writes
MediaReplyStep ==
    pc = "media" =>
        /\ dirs' \in {dirs, dirs \cup {VIDEO_DIR}}
        /\ Cardinality(files' \ files) <= 1
        /\ files \subseteq files'

C28_VideoFlowAllOrNothing ==
    /\ []VideoWritesLast
    /\ [][BeforeMediaReply]_vars
    /\ [][MediaReplyFailed]_vars
    /\ [][MediaReplyStep]_vars

\* the first URL, a video, was given up after its media request failed:
\* neither directory nor file exists
C28_Witness ==
    /\ UrlEnded
    /\ idx = 2
    /\ obs.route = "video"
    /\ obs.mediaReplies = <<"rejected">>
    /\ dirs = {}
    /\ files = {}

(***************************************************************************)
(* C29.  Processing is idempotent on the set of output files: when the     *)
(* same URL occurs twice in a batch and receives identical replies both    *)
(* times, the second processing writes exactly the file names the first    *)
(* wrote, so the set of files after the batch is the set after the first   *)
(* processing.  The files start out empty: after the first processing the  *)
(* files are the names it wrote, the second processing never changes the   *)
(* set of files, and the names it wrote are that set again.                *)
(***************************************************************************)
Range(seq) == { seq[k] : k \in 1..Len(seq) }

\* a processing has ended and the files are exactly the names it wrote
WrittenAreTheFiles == (UrlEnded /\ idx \in {2, 3}) => Range(obs.written) = files

\* the steps of the second processing
SecondLeavesFileSet == idx = 2 => files' = files

\* the steps left out of TwiceNext cannot be taken
OnlyUndelayedValidUrls ==
    /\ ~ENABLED processUrls_Invalid
    /\ ~ENABLED processUrls_Delay
    /\ ~ENABLED processUrls_DelayElapsed

C29_SameUrlTwiceSameFiles ==
    /\ []WrittenAreTheFiles
    /\ []OnlyUndelayedValidUrls
    /\ [][SecondLeavesFileSet]_vars

\* a photo post of several images was downloaded twice
C29_Witness ==
    /\ pc = "done"
    /\ Len(outcomes) = 2
    /\ outcomes[1].downloaded
    /\ outcomes[2].downloaded
    /\ Len(obs.written) >= 2
    /\ Range(obs.written) = files

(***************************************************************************)
(* C30.  formatUploadDate throws when the timestamp is invalid (missing,   *)
(* non-numeric, out of range) instead of returning a date string, and      *)
(* returns the eight digits DDMMYYYY otherwise.                            *)
(***************************************************************************)
C30_InvalidTimestampThrows ==
    Returned("formatUploadDate") =>
        /\ ~IsSome(ArgIn) => Ret.threw
        /\ ArgIn = Some(0) => Ret = Ok("01011970")
        /\ ArgIn = Some(86399) => Ret = Ok("01011970")
        /\ ArgIn = Some(951782400) => Ret = Ok("29022000")
        /\ ArgIn = Some(1700000000) => Ret = Ok("14112023")
        /\ ArgIn = Some(1709251200) => Ret = Ok("01032024")
        /\ ArgIn = Some(1735689599) => Ret = Ok("31122024")

====
